---- MODULE Spec2Model ----
(***************************************************************************)
(* A model of the filing-analysis core of financehelper:                   *)
(*   - SECDocumentReasoner.chunk_summaries   (the chunk packer)            *)
(*   - SECDocumentReasoner.generate_reasoning (stage runner + synthesis)   *)
(*   - parse_10k_parts_and_items              (the segmenter)              *)
(*                                                                         *)
(* A Python str is modelled as a sequence of atoms.  An atom is a TLA+     *)
(* string standing for a fixed piece of text; Width gives the number of    *)
(* characters it stands for, so len() is the sum of the widths.            *)
(***************************************************************************)
EXTENDS Integers, Sequences, FiniteSets, TLC

VARIABLES
    pc,              \* position of the operation under study
    company,         \* argument of generate_reasoning (the ticker)
    all_summaries,   \* argument of chunk_summaries / generate_reasoning
    chunk_size,      \* argument of chunk_summaries
    chunks,          \* list returned by chunk_summaries
    chunk_analyses,  \* generate_reasoning: the list built by the loop
    calls,           \* every requests.post issued so far, in order
    in_flight,       \* TRUE while a requests.post has not returned
    result,          \* value returned by generate_reasoning
    text,            \* argument of parse_10k_parts_and_items
    parsed,          \* value returned by parse_10k_parts_and_items
    file_text,       \* content of the file written by save_parsed_to_txt
    loaded,          \* value returned by load_parsed_document
    attempt,         \* download_and_clean_filing: GET requests issued so far
    r,               \* download_and_clean_filing: the last response
    gets,            \* status of every requests.get answered so far, in order
    soup,            \* download_and_clean_filing: the parsed response
    output_file,     \* content of the file written by the download
    error,           \* message of the exception raised by the download
    line_index,      \* clean_text: number of lines the loop has handled
    skip_legal_section,  \* clean_text: the flag set by a legal-section line
    cleaned_lines,   \* clean_text: the list built by the loop
    cleaned_text,    \* value returned by clean_text
    reasoner,        \* the attributes of the one SECDocumentReasoner
    runs             \* the locals of each generate_reasoning call under way

\* the variables of download_and_clean_filing
download_vars == <<attempt, r, gets, soup, output_file, error>>

\* the variables of SECFilingCleaner.clean_text
clean_vars == <<line_index, skip_legal_section, cleaned_lines, cleaned_text>>

\* the variables of the interleaved runs of generate_reasoning
concurrent_vars == <<reasoner, runs>>

\* the variables of the operations around the round trip of the saved text
beside_round_trip == <<download_vars, clean_vars, concurrent_vars>>

\* the variables of the operations added around the core
others == <<file_text, loaded, beside_round_trip>>

vars == <<pc, company, all_summaries, chunk_size, chunks, chunk_analyses, calls,
          in_flight, result, text, parsed, others>>

-----------------------------------------------------------------------------
(* Bounds of the model *)

MaxPackLen == 5
MaxLimit == 7
MaxSections == 3
MaxLines == 4

-----------------------------------------------------------------------------
(* Python str operations on sequences of atoms *)

\* the separator chunk_summaries splits on
Marker == "=== "

\* a run of 3000 non-blank characters and a run of 3000 spaces
LongRun == "x*3000"
BlankRun == " *3000"

\* literal pieces of the text generate_reasoning builds
AnalysisHeaderOpen == "=== ANALYSIS PART "
AnalysisHeaderClose == " ===\n"
PlaceholderText == "Analysis unavailable for chunk "
SynthesisTitle == "=== COMPREHENSIVE SYNTHESIS ===\n"

Width(a) ==
    CASE a = Marker -> 4
      [] a = LongRun -> 3000
      [] a = BlankRun -> 3000
      [] a = AnalysisHeaderOpen -> 18
      [] a = AnalysisHeaderClose -> 5
      [] a = PlaceholderText -> 31
      [] a = SynthesisTitle -> 32
      [] a \in {"PART", "part", "Item"} -> 4
      [] a \in {"Table of Contents", "TABLE OF CONTENTS"} -> 17
      [] a \in {"SIGNATURES", "Signatures"} -> 10
      [] a = "Power of Attorney" -> 17
      [] a = "Revenue" -> 7
      [] a = "Member" -> 6
      [] a = "https://" -> 8
      [] a \in {"aapl:", "false"} -> 5
      [] a = " | 2024 Form 10-K | " -> 20
      [] OTHER -> 1

\* str.isspace() of the text an atom stands for
IsSpace(a) == a \in {" ", "\n", BlankRun}

RECURSIVE StrLen(_)
StrLen(s) == IF s = <<>> THEN 0 ELSE Width(Head(s)) + StrLen(Tail(s))

RECURSIVE LStrip(_)
LStrip(s) == IF s # <<>> /\ IsSpace(Head(s)) THEN LStrip(Tail(s)) ELSE s

RECURSIVE RStrip(_)
RStrip(s) ==
    IF s # <<>> /\ IsSpace(s[Len(s)]) THEN RStrip(SubSeq(s, 1, Len(s) - 1)) ELSE s

Strip(s) == RStrip(LStrip(s))

\* s.split(sep) for a separator that is one atom: the pieces between the
\* occurrences of sep, empty pieces included
RECURSIVE SplitFrom(_, _, _, _)
SplitFrom(s, sep, k, piece) ==
    IF k > Len(s) THEN <<piece>>
    ELSE IF s[k] = sep THEN <<piece>> \o SplitFrom(s, sep, k + 1, <<>>)
    ELSE SplitFrom(s, sep, k + 1, Append(piece, s[k]))

Split(s, sep) == SplitFrom(s, sep, 1, <<>>)

\* "".join(list)
RECURSIVE Concat(_)
Concat(list) == IF list = <<>> THEN <<>> ELSE Head(list) \o Concat(Tail(list))

\* sep.join(list)
RECURSIVE Join(_, _)
Join(list, sep) ==
    IF list = <<>> THEN <<>>
    ELSE IF Len(list) = 1 THEN list[1]
    ELSE list[1] \o sep \o Join(Tail(list), sep)

\* all sequences over S of length 0..n
SeqsUpTo(S, n) == UNION {[1..k -> S] : k \in 0..n}

-----------------------------------------------------------------------------
(* SECDocumentReasoner.chunk_summaries *)

DefaultChunkSize == 6000

\* variant: the section is told from the first one by its position
SectionTextByIndex(sections, k) ==
    IF k # 1 THEN <<Marker>> \o sections[k] ELSE sections[k]

\* section_text = f"=== {section}" if section != sections[0] else section
\* (the comparison is on the value of the section, as in the code)
SectionText(sections, k) ==
    IF sections[k] # sections[1] THEN <<Marker>> \o sections[k] ELSE sections[k]

\* if current_chunk: chunks.append(current_chunk.strip())
Flush(out, current_chunk) ==
    IF current_chunk # <<>> THEN Append(out, Strip(current_chunk)) ELSE out

\* the for loop over sections, from section k on
RECURSIVE ChunkLoop(_, _, _, _, _)
ChunkLoop(sections, k, out, current_chunk, limit) ==
    IF k > Len(sections) THEN Flush(out, current_chunk)
    ELSE IF Strip(sections[k]) = <<>>
         THEN ChunkLoop(sections, k + 1, out, current_chunk, limit)
    ELSE LET section_text == SectionText(sections, k)
         IN  IF StrLen(current_chunk \o section_text) <= limit
             THEN ChunkLoop(sections, k + 1, out,
                            current_chunk \o section_text, limit)
             ELSE ChunkLoop(sections, k + 1, Flush(out, current_chunk),
                            section_text, limit)

\* variant: no early return for a text within the limit
chunk_summariesAlwaysSplits(summaries, limit) ==
    ChunkLoop(Split(summaries, Marker), 1, <<>>, <<>>, limit)

chunk_summaries(summaries, limit) ==
    IF StrLen(summaries) <= limit THEN <<summaries>>
    ELSE ChunkLoop(Split(summaries, Marker), 1, <<>>, <<>>, limit)

-----------------------------------------------------------------------------
(* Specification SpecPack: chunk_summaries applied to bounded inputs *)

PackAtoms == {"a", " ", Marker}

PackInputs == SeqsUpTo(PackAtoms, MaxPackLen)

Idle ==
    /\ chunks = <<>>
    /\ chunk_analyses = <<>>
    /\ calls = <<>>
    /\ in_flight = FALSE
    /\ result = <<>>
    /\ parsed = <<>>
    /\ file_text = <<>>
    /\ loaded = <<>>
    /\ attempt = 0
    /\ r = <<>>
    /\ gets = <<>>
    /\ soup = <<>>
    /\ output_file = <<>>
    /\ error = <<>>
    /\ line_index = 0
    /\ skip_legal_section = FALSE
    /\ cleaned_lines = <<>>
    /\ cleaned_text = <<>>
    /\ reasoner = <<>>
    /\ runs = <<>>

InitPack ==
    /\ pc = "Idle"
    /\ company = ""
    /\ all_summaries \in PackInputs
    /\ chunk_size \in 1..MaxLimit
    /\ text = <<>>
    /\ Idle

Pack ==
    /\ pc = "Idle"
    /\ chunks' = chunk_summaries(all_summaries, chunk_size)
    /\ pc' = "Packed"
    /\ UNCHANGED <<others, company, all_summaries, chunk_size, chunk_analyses, calls,
                   in_flight, result, text, parsed>>

NextPack == Pack

SpecPack == InitPack /\ [][NextPack]_vars

-----------------------------------------------------------------------------
(* SECDocumentReasoner.generate_reasoning_for_chunk and generate_reasoning *)

\* the ways a call to the generation service fails: requests.post raises
\* (no connection, timeout), raise_for_status raises, or response.json()
\* ["response"].strip() raises
GenErrors == {"Unreachable", "Timeout", "ServiceStatus", "MalformedResponse"}

\* variant: a handler for requests.RequestException only
CaughtOnlyRequestErrors(e) == e \in GenErrors \ {"MalformedResponse"}

\* except Exception as e: every one of these is an Exception
Caught(e) == e \in GenErrors

\* variant: the last chunk of a run always gets the investment thesis
ChunkFocusLastIsThesis(chunk_num) ==
    IF chunk_num = Len(chunks)
    THEN "Focus on: Investment Thesis and synthesis of previous analysis"
    ELSE IF chunk_num = 1
    THEN "Focus primarily on: Business Model Analysis and Financial Health Assessment"
    ELSE "Focus primarily on: Risk Assessment and Growth Opportunities"

\* chunk_focus, chosen from chunk_num alone
ChunkFocus(chunk_num) ==
    IF chunk_num = 1
    THEN "Focus primarily on: Business Model Analysis and Financial Health Assessment"
    ELSE IF chunk_num = 2
    THEN "Focus primarily on: Risk Assessment and Growth Opportunities"
    ELSE "Focus on: Investment Thesis and synthesis of previous analysis"

\* f"Analysis unavailable for chunk {chunk_num}"
Placeholder(chunk_num) == <<PlaceholderText, ToString(chunk_num)>>

\* f"=== ANALYSIS PART {i} ===\n{analysis}"
AnalysisPart(i, analysis) ==
    <<AnalysisHeaderOpen, ToString(i), AnalysisHeaderClose>> \o analysis

\* "\n\n".join(chunk_analyses)
CombinedAnalysis(analyses) == Join(analyses, <<"\n", "\n">>)

SynthesisPrefixLen == 7000

\* variant: the whole text, not cut
PrefixUncut(s, n) == s

\* s[:n]: the longest prefix of at most n characters (taken atom by atom)
RECURSIVE Prefix(_, _)
Prefix(s, n) ==
    IF s = <<>> \/ Width(Head(s)) > n THEN <<>>
    ELSE <<Head(s)>> \o Prefix(Tail(s), n - Width(Head(s)))

\* variant: len(chunks) >= 1
NeedsSynthesisFromOne(n) == n >= 1

\* if len(chunks) > 1
NeedsSynthesis(n) == n > 1

\* the loop appends the analysis returned for chunk i: the stripped response
AfterChunkSuccess(analyses, i, response) ==
    Append(analyses, AnalysisPart(i, Strip(response)))

\* variant: a failed chunk is left without analysis, to be tried again
AfterChunkFailureRetry(analyses, i) == analyses

\* variant: a failed chunk also turns the analyses collected before it into
\* placeholders
AfterChunkFailureClobbers(analyses, i) ==
    [k \in 1..(Len(analyses) + 1) |-> AnalysisPart(k, Placeholder(k))]

\* ... or the placeholder returned by the except branch
AfterChunkFailure(analyses, i) ==
    Append(analyses, AnalysisPart(i, Placeholder(i)))

\* variant: the result is built from the text that was sent in the prompt
SynthesisSuccessResultFromPrompt(combined, response) ==
    Prefix(combined, SynthesisPrefixLen)
        \o <<"\n", "\n", SynthesisTitle>> \o Strip(response)

\* return f"{combined_analysis}\n\n=== COMPREHENSIVE SYNTHESIS ===\n{final_synthesis}"
SynthesisSuccessResult(combined, response) ==
    combined \o <<"\n", "\n", SynthesisTitle>> \o Strip(response)

\* variant: the except branch returns an empty text
SynthesisFailureEmpty(combined) == <<>>

\* except branch of the synthesis call: return combined_analysis
SynthesisFailureResult(combined) == combined

\* variant: the next call is posted without waiting for the one in flight
CanStartChunkOverlapping ==
    /\ pc = "Running"
    /\ Len(calls) < Len(chunks)

\* the loop may start the call for the next chunk
CanStartChunk ==
    /\ pc = "Running"
    /\ ~in_flight
    /\ Len(chunk_analyses) < Len(chunks)

\* the record of one requests.post
Call(kind, chunk_num, prompt) ==
    [kind |-> kind, company |-> company, chunk_num |-> chunk_num,
     total_chunks |-> Len(chunks),
     focus |-> IF kind = "chunk" THEN ChunkFocus(chunk_num) ELSE "",
     prompt |-> prompt, outcome |-> "pending", response |-> <<>>]

\* the timeout= argument of requests.post: none is passed, and requests then
\* waits for the answer without limit
PostTimeout == "None"

\* the last call is posted and the service may still answer it
AwaitingAnswer ==
    /\ in_flight
    /\ calls[Len(calls)].outcome = "pending"

\* requests.post can raise e for the last call: any failure while the answer
\* may still come; for a call the service never answers only the timeout
\* of requests, when one is set
CanRaise(e) ==
    /\ in_flight
    /\ \/ calls[Len(calls)].outcome = "pending"
       \/ /\ calls[Len(calls)].outcome = "unanswered"
          /\ e = "Timeout"
          /\ PostTimeout # "None"

Completed(outcome, response) ==
    [calls EXCEPT ![Len(calls)].outcome = outcome,
                  ![Len(calls)].response = response]

\* chunks = self.chunk_summaries(all_summaries)
Begin ==
    /\ pc = "Idle"
    /\ chunks' = chunk_summaries(all_summaries, chunk_size)
    /\ pc' = "Running"
    /\ UNCHANGED <<others, company, all_summaries, chunk_size, chunk_analyses, calls,
                   in_flight, result, text, parsed>>

\* the loop body reaches requests.post for chunk i
StartChunkCall ==
    /\ CanStartChunk
    /\ LET i == Len(chunk_analyses) + 1
       IN  calls' = Append(calls, Call("chunk", i, chunks[i]))
    /\ in_flight' = TRUE
    /\ UNCHANGED <<pc, others, company, all_summaries, chunk_size, chunks, chunk_analyses,
                   result, text, parsed>>

\* the service answers 2xx with a JSON object holding the text `response`
ChunkCallReturns(response) ==
    /\ pc = "Running"
    /\ AwaitingAnswer
    /\ chunk_analyses' =
           AfterChunkSuccess(chunk_analyses, calls[Len(calls)].chunk_num, response)
    /\ calls' = Completed("ok", response)
    /\ in_flight' = FALSE
    /\ UNCHANGED <<pc, others, company, all_summaries, chunk_size, chunks, result, text, parsed>>

\* the call raises e inside the try block
ChunkCallFails(e) ==
    /\ pc = "Running"
    /\ CanRaise(e)
    /\ calls' = Completed(e, <<>>)
    /\ in_flight' = FALSE
    /\ IF Caught(e)
       THEN /\ chunk_analyses' =
                   AfterChunkFailure(chunk_analyses, calls[Len(calls)].chunk_num)
            /\ pc' = pc
       ELSE /\ pc' = "Raised"
            /\ UNCHANGED chunk_analyses
    /\ UNCHANGED <<others, company, all_summaries, chunk_size, chunks, result, text, parsed>>

\* after the loop, len(chunks) > 1: the synthesis call is posted
StartSynthesis ==
    /\ pc = "Running"
    /\ ~in_flight
    /\ Len(chunk_analyses) >= Len(chunks)
    /\ NeedsSynthesis(Len(chunks))
    /\ calls' = Append(calls,
           Call("synthesis", 0,
                Prefix(CombinedAnalysis(chunk_analyses), SynthesisPrefixLen)))
    /\ in_flight' = TRUE
    /\ pc' = "Synthesizing"
    /\ UNCHANGED <<others, company, all_summaries, chunk_size, chunks, chunk_analyses, result,
                   text, parsed>>

SynthesisReturns(response) ==
    /\ pc = "Synthesizing"
    /\ AwaitingAnswer
    /\ calls' = Completed("ok", response)
    /\ in_flight' = FALSE
    /\ result' = SynthesisSuccessResult(CombinedAnalysis(chunk_analyses), response)
    /\ pc' = "Done"
    /\ UNCHANGED <<others, company, all_summaries, chunk_size, chunks, chunk_analyses, text, parsed>>

SynthesisFails(e) ==
    /\ pc = "Synthesizing"
    /\ CanRaise(e)
    /\ calls' = Completed(e, <<>>)
    /\ in_flight' = FALSE
    /\ IF Caught(e)
       THEN /\ result' = SynthesisFailureResult(CombinedAnalysis(chunk_analyses))
            /\ pc' = "Done"
       ELSE /\ pc' = "Raised"
            /\ UNCHANGED result
    /\ UNCHANGED <<others, company, all_summaries, chunk_size, chunks, chunk_analyses, text, parsed>>

\* the service holds the connection of the posted call open and never
\* answers it; requests.post stays blocked
ServiceNeverAnswers ==
    /\ pc \in {"Running", "Synthesizing"}
    /\ AwaitingAnswer
    /\ calls' = [calls EXCEPT ![Len(calls)].outcome = "unanswered"]
    /\ UNCHANGED <<pc, others, company, all_summaries, chunk_size, chunks, chunk_analyses,
                   in_flight, result, text, parsed>>

\* the run is cancelled while requests.post is blocked: KeyboardInterrupt is
\* raised inside the try block; it is a BaseException, not an Exception, so
\* neither except clause handles it and it leaves generate_reasoning
Cancellation == "KeyboardInterrupt"

CancelDuringCall ==
    /\ pc \in {"Running", "Synthesizing"}
    /\ in_flight
    /\ calls' = Completed(Cancellation, <<>>)
    /\ in_flight' = FALSE
    /\ pc' = "Cancelled"
    /\ UNCHANGED <<others, company, all_summaries, chunk_size, chunks, chunk_analyses,
                   result, text, parsed>>

\* else: return chunk_analyses[0]   (IndexError when the list is empty)
ReturnFirst ==
    /\ pc = "Running"
    /\ ~in_flight
    /\ Len(chunk_analyses) >= Len(chunks)
    /\ ~NeedsSynthesis(Len(chunks))
    /\ IF chunk_analyses # <<>>
       THEN /\ result' = chunk_analyses[1]
            /\ pc' = "Done"
       ELSE /\ pc' = "Raised"
            /\ UNCHANGED result
    /\ UNCHANGED <<others, company, all_summaries, chunk_size, chunks, chunk_analyses, calls,
                   in_flight, text, parsed>>

-----------------------------------------------------------------------------
(* Specification Spec: one run of generate_reasoning *)

\* the sections the inputs of a run are built from
SectionKinds == {<<Marker, LongRun>>, <<BlankRun>>, <<"a">>}

PipelineInputs == {Concat(ks) : ks \in SeqsUpTo(SectionKinds, MaxSections)}

\* the tickers the runs are made for
Companies == {"AAPL", "MSFT"}

\* texts the service may return in the field `response`
Responses == {<<"x">>, <<" ", "y", "\n">>, <<" ">>, <<LongRun>>}

Init ==
    /\ pc = "Idle"
    /\ company \in Companies
    /\ all_summaries \in PipelineInputs
    /\ chunk_size = DefaultChunkSize
    /\ text = <<>>
    /\ Idle

Next ==
    \/ Begin
    \/ StartChunkCall
    \/ \E response \in Responses : ChunkCallReturns(response)
    \/ \E e \in GenErrors : ChunkCallFails(e)
    \/ StartSynthesis
    \/ \E response \in Responses : SynthesisReturns(response)
    \/ \E e \in GenErrors : SynthesisFails(e)
    \/ ServiceNeverAnswers
    \/ CancelDuringCall
    \/ ReturnFirst

Spec == Init /\ [][Next]_vars

-----------------------------------------------------------------------------
(* parse_10k_parts_and_items *)
(* Positions are 1-based: position p lies before atom p, and Len(t) + 1 is  *)
(* the end of the text.  A match is the pair of its start and its end       *)
(* (exclusive), as match.start() and match.end().                           *)

WsAtoms == {" ", "\n"}
DigitAtoms == {"1", "2"}
\* single letters; the words "PART", "part" and "Item" are atoms of their own
LetterAtoms == {"A", "w", "I", "V", "i", "v"}

\* str.upper() of one atom
Upper(a) ==
    CASE a = "part" -> "PART"
      [] a = "Item" -> "ITEM"
      [] a = "i" -> "I"
      [] a = "v" -> "V"
      [] a = "w" -> "W"
      [] OTHER -> a

UpperStr(s) == [k \in 1..Len(s) |-> Upper(s[k])]

\* [IVXLC] under re.IGNORECASE
IsRoman(a) == Upper(a) \in {"I", "V", "X", "L", "C"}

Min(S) == CHOOSE x \in S : \A y \in S : x <= y
Max(S) == CHOOSE x \in S : \A y \in S : x >= y

\* end of the longest run of whitespace / roman letters / digits from p
WsRunEnd(t, p) ==
    LET stops == {k \in p..Len(t) : t[k] \notin WsAtoms}
    IN  IF stops = {} THEN Len(t) + 1 ELSE Min(stops)

RomanRunEnd(t, p) ==
    LET stops == {k \in p..Len(t) : ~IsRoman(t[k])}
    IN  IF stops = {} THEN Len(t) + 1 ELSE Min(stops)

DigitRunEnd(t, p) ==
    LET stops == {k \in p..Len(t) : t[k] \notin DigitAtoms}
    IN  IF stops = {} THEN Len(t) + 1 ELSE Min(stops)

\* ^ and $ under re.MULTILINE
AtLineStart(t, p) == p = 1 \/ t[p - 1] = "\n"
AtLineEnd(t, p) == p = Len(t) + 1 \/ t[p] = "\n"

NoMatch == [ok |-> FALSE, start |-> 0, end |-> 0, from |-> 0]

\* parts_pattern = ^\s*(PART\s+[IVXLC]+)\s*$ tried at position s.
\* from..end is the match, start..(roman run end) is group 1.
PartsPatternAt(t, s) ==
    IF ~AtLineStart(t, s) THEN NoMatch
    ELSE LET q == WsRunEnd(t, s)
             w == WsRunEnd(t, q + 1)
             u == RomanRunEnd(t, w)
             v == WsRunEnd(t, u)
             \* \s*$ : the longest run of whitespace that stops at a line end
             ends == {e \in u..v : AtLineEnd(t, e)}
         IN  IF /\ q <= Len(t)
                /\ Upper(t[q]) = "PART"
                /\ w > q + 1
                /\ u > w
                /\ ends # {}
             THEN [ok |-> TRUE, from |-> s, start |-> q, end |-> Max(ends),
                   group |-> SubSeq(t, q, u - 1)]
             ELSE NoMatch

\* items_pattern = ^\s*(Item\s+\d+[A-Z]?\.?\s+.+?)(?=\n|$) tried at position s
ItemsPatternAt(t, s) ==
    IF ~AtLineStart(t, s) THEN NoMatch
    ELSE LET q == WsRunEnd(t, s)
             w == WsRunEnd(t, q + 1)
             d == DigitRunEnd(t, w)
             l == IF d <= Len(t) /\ t[d] \in LetterAtoms THEN d + 1 ELSE d
             dot == IF l <= Len(t) /\ t[l] = "." THEN l + 1 ELSE l
             z == WsRunEnd(t, dot)
             \* \s+ gives back whitespace until .+? finds a character that
             \* is not a newline
             starts == {c \in (dot + 1)..z : c <= Len(t) /\ t[c] # "\n"}
             c == Max(starts)
             e == Min({k \in (c + 1)..(Len(t) + 1) : AtLineEnd(t, k)})
         IN  IF /\ q <= Len(t)
                /\ Upper(t[q]) = "ITEM"
                /\ w > q + 1
                /\ d > w
                /\ starts # {}
             THEN [ok |-> TRUE, from |-> s, start |-> q, end |-> e,
                   group |-> SubSeq(t, q, e - 1)]
             ELSE NoMatch

\* pattern.finditer(t): the matches from left to right, each search starting
\* where the match before it ended
RECURSIVE PartsFinditer(_, _)
PartsFinditer(t, from) ==
    LET found == {s \in from..Len(t) : PartsPatternAt(t, s).ok}
        m == PartsPatternAt(t, Min(found))
    IN  IF found = {} THEN <<>> ELSE <<m>> \o PartsFinditer(t, m.end)

RECURSIVE ItemsFinditer(_, _)
ItemsFinditer(t, from) ==
    LET found == {s \in from..Len(t) : ItemsPatternAt(t, s).ok}
        m == ItemsPatternAt(t, Min(found))
    IN  IF found = {} THEN <<>> ELSE <<m>> \o ItemsFinditer(t, m.end)

\* raw_parts = [(match.group(1).upper().strip(), match.start()) ...]
RawParts(t) ==
    LET ms == PartsFinditer(t, 1)
    IN  [i \in 1..Len(ms) |->
            [title |-> Strip(UpperStr(ms[i].group)), start |-> ms[i].from]]

\* variant: a list that also names PART V
ValidOrderWithPartV ==
    << <<"PART", " ", "I">>, <<"PART", " ", "I", "I">>,
       <<"PART", " ", "I", "I", "I">>, <<"PART", " ", "I", "V">>,
       <<"PART", " ", "V">> >>

\* valid_order = ["PART I", "PART II", "PART III", "PART IV"]
ValidOrder ==
    << <<"PART", " ", "I">>, <<"PART", " ", "I", "I">>,
       <<"PART", " ", "I", "I", "I">>, <<"PART", " ", "I", "V">> >>

InValidOrder(title) == \E k \in 1..Len(ValidOrder) : ValidOrder[k] = title

\* a Python dict as the sequence of its (key, value) pairs in insertion order
DictHas(dict, key) == \E k \in 1..Len(dict) : dict[k].key = key

DictGet(dict, key) == dict[CHOOSE k \in 1..Len(dict) : dict[k].key = key].value

\* dict[key] = value: a new key goes last, a known key keeps its place
DictSet(dict, key, value) ==
    IF DictHas(dict, key)
    THEN [k \in 1..Len(dict) |->
             IF dict[k].key = key THEN [key |-> key, value |-> value] ELSE dict[k]]
    ELSE Append(dict, [key |-> key, value |-> value])

\* variant: the test off by one
HasNextOffByOne(i, n) == i <= n

\* i + 1 < len(matches), for the 1-based index i
HasNext(i, n) == i + 1 <= n

\* variant: the slice runs to the next header whose title is in valid_order
SliceEndAtNextValid(t, raw_parts, i) ==
    LET later == {k \in (i + 1)..Len(raw_parts) : InValidOrder(raw_parts[k].title)}
    IN  IF later # {}
        THEN raw_parts[CHOOSE k \in later : \A m \in later : k <= m].start
        ELSE Len(t) + 1

\* end = raw_parts[i+1][1] if i + 1 < len(raw_parts) else len(text)
SliceEnd(t, raw_parts, i) ==
    IF HasNext(i, Len(raw_parts)) THEN raw_parts[i + 1].start ELSE Len(t) + 1

\* variant: a title already stored keeps its first slice
StoreBlockKeepFirst(part_blocks, title, block) ==
    IF DictHas(part_blocks, title) THEN part_blocks
    ELSE DictSet(part_blocks, title, block)

\* part_blocks[title] = text[start:end]
StoreBlock(part_blocks, title, block) == DictSet(part_blocks, title, block)

\* for i in range(len(raw_parts)): ...  part_blocks[title] = text[start:end]
RECURSIVE PartBlocks(_, _, _, _)
PartBlocks(t, raw_parts, i, part_blocks) ==
    IF i > Len(raw_parts) THEN part_blocks
    ELSE LET title == raw_parts[i].title
             start == raw_parts[i].start
             end == SliceEnd(t, raw_parts, i)
         IN  PartBlocks(t, raw_parts, i + 1,
                 IF InValidOrder(title)
                 THEN StoreBlock(part_blocks, title, SubSeq(t, start, end - 1))
                 ELSE part_blocks)

\* re.sub(r'\s{2,}', ' ', title)
RECURSIVE CollapseSpaces(_)
CollapseSpaces(s) ==
    IF s = <<>> THEN <<>>
    ELSE IF s[1] \in WsAtoms /\ WsRunEnd(s, 1) > 2
         THEN <<" ">> \o CollapseSpaces(SubSeq(s, WsRunEnd(s, 1), Len(s)))
    ELSE <<s[1]>> \o CollapseSpaces(Tail(s))

\* title.replace('..', '.')
RECURSIVE ReplaceDotDot(_)
ReplaceDotDot(s) ==
    IF Len(s) >= 2 /\ s[1] = "." /\ s[2] = "."
    THEN <<".">> \o ReplaceDotDot(SubSeq(s, 3, Len(s)))
    ELSE IF s = <<>> THEN <<>>
    ELSE <<s[1]>> \o ReplaceDotDot(Tail(s))

NormalizeTitle(item_title) ==
    Strip(ReplaceDotDot(CollapseSpaces(Strip(item_title))))

\* variant: the first item of a part takes the text from the Part header on
ItemStartAtPartHeader(item_matches, j) ==
    IF j = 1 THEN 1 ELSE item_matches[j].end

\* variant: a title already stored keeps its first content
StoreItemKeepFirst(items, item_title, item_content) ==
    IF DictHas(items, item_title) THEN items
    ELSE DictSet(items, item_title, item_content)

\* parsed[part][item_title] = item_content
StoreItem(items, item_title, item_content) ==
    DictSet(items, item_title, item_content)

\* item_start = item_matches[j].end()
ItemStart(item_matches, j) == item_matches[j].end

\* for j in range(len(item_matches)): ...  parsed[part][item_title] = item_content
RECURSIVE PartItems(_, _, _, _)
PartItems(part_text, item_matches, j, items) ==
    IF j > Len(item_matches) THEN items
    ELSE LET item_start == ItemStart(item_matches, j)
             item_end == IF HasNext(j, Len(item_matches))
                         THEN item_matches[j + 1].from ELSE Len(part_text) + 1
             item_content == Strip(SubSeq(part_text, item_start, item_end - 1))
         IN  PartItems(part_text, item_matches, j + 1,
                 StoreItem(items, NormalizeTitle(item_matches[j].group), item_content))

\* variant: the parts are visited in the order the text gave them
PartOrderAsFound(part_blocks) == [k \in 1..Len(part_blocks) |-> part_blocks[k].key]

\* the order in which the output loop visits the parts: valid_order
PartOrder(part_blocks) == ValidOrder

\* variant: no part is skipped
SkipPartNever(item_matches) == FALSE

\* if not item_matches: continue
SkipPart(item_matches) == item_matches = <<>>

\* for part in valid_order: ...
RECURSIVE ParsedFrom(_, _, _)
ParsedFrom(part_blocks, k, out) ==
    IF k > Len(PartOrder(part_blocks)) THEN out
    ELSE IF ~DictHas(part_blocks, PartOrder(part_blocks)[k])
         THEN ParsedFrom(part_blocks, k + 1, out)
    ELSE LET part == PartOrder(part_blocks)[k]
             part_text == DictGet(part_blocks, part)
             item_matches == ItemsFinditer(part_text, 1)
         IN  IF SkipPart(item_matches)
             THEN ParsedFrom(part_blocks, k + 1, out)
             ELSE ParsedFrom(part_blocks, k + 1,
                      DictSet(out, part,
                              PartItems(part_text, item_matches, 1, <<>>)))

parse_10k_parts_and_items(t) ==
    ParsedFrom(PartBlocks(t, RawParts(t), 1, <<>>), 1, <<>>)

\* the lookups raw_parts[i + 1] and item_matches[j + 1] raise IndexError when
\* the index they use is past the end of the list
IndexErrorIn(n) == \E i \in 1..n : HasNext(i, n) /\ i + 1 > n

ParseRaises(t) ==
    LET raw_parts == RawParts(t)
        part_blocks == PartBlocks(t, raw_parts, 1, <<>>)
    IN  \/ IndexErrorIn(Len(raw_parts))
        \/ \E k \in 1..Len(part_blocks) :
              IndexErrorIn(Len(ItemsFinditer(part_blocks[k].value, 1)))

-----------------------------------------------------------------------------
(* Specification SpecSegment: parse_10k_parts_and_items on bounded texts *)

\* the lines the input texts are made of
LineKinds ==
    { <<"PART", " ", "I">>,
      <<"part", " ", "i", "i">>,
      <<"PART", " ", "V">>,
      <<"Item", " ", "1", ".", " ", "A">>,
      <<"Item", " ", "1", ".", " ", " ", "A", ".", ".", ".">>,
      <<"Item", " ", "2", ".">>,
      <<"w">>,
      <<>> }

SegmentInputs == {Join(ls, <<"\n">>) : ls \in SeqsUpTo(LineKinds, MaxLines)}

InitSegment ==
    /\ pc = "Idle"
    /\ text \in SegmentInputs
    /\ company = ""
    /\ all_summaries = <<>>
    /\ chunk_size = DefaultChunkSize
    /\ Idle

Segment ==
    /\ pc = "Idle"
    /\ IF ParseRaises(text)
       THEN pc' = "Raised" /\ UNCHANGED parsed
       ELSE pc' = "Parsed" /\ parsed' = parse_10k_parts_and_items(text)
    /\ UNCHANGED <<others, company, all_summaries, chunk_size, chunks, chunk_analyses, calls,
                   in_flight, result, text>>

NextSegment == Segment

SpecSegment == InitSegment /\ [][NextSegment]_vars

-----------------------------------------------------------------------------
(* save_parsed_to_txt and SECDocumentProcessor.load_parsed_document *)

\* c * n for a one-character string c
Repeat(c, n) == [k \in 1..n |-> c]

\* for item_title, content in parsed_data[part].items(): the two writes
RECURSIVE SaveItems(_, _)
SaveItems(items, j) ==
    IF j > Len(items) THEN <<>>
    ELSE items[j].key \o <<"\n">> \o Repeat("-", StrLen(items[j].key)) \o <<"\n">>
         \o items[j].value \o <<"\n", "\n">>
         \o SaveItems(items, j + 1)

\* for part in ["PART I", "PART II", "PART III", "PART IV"]: ...
RECURSIVE SaveParts(_, _)
SaveParts(parsed_data, k) ==
    IF k > Len(ValidOrder) THEN <<>>
    ELSE (IF ~DictHas(parsed_data, ValidOrder[k]) THEN <<>>
          ELSE ValidOrder[k] \o <<"\n">>
               \o Repeat("=", StrLen(ValidOrder[k])) \o <<"\n", "\n">>
               \o SaveItems(DictGet(parsed_data, ValidOrder[k]), 1))
         \o SaveParts(parsed_data, k + 1)

save_parsed_to_txt(parsed_data) == SaveParts(parsed_data, 1)

\* re.match(r'^PART [IVXLC]+$', line.strip()): case-sensitive, one space
IsPartLine(line) ==
    LET l == Strip(line)
    IN  /\ Len(l) >= 3
        /\ l[1] = "PART"
        /\ l[2] = " "
        /\ \A p \in 3..Len(l) : l[p] \in {"I", "V"}

\* all(c in chars for c in s)
AllIn(s, chars) == \A p \in 1..Len(s) : s[p] \in chars

\* lines.index(line): the first position that holds an equal line
IndexOf(lines, line) ==
    CHOOSE k \in 1..Len(lines) :
        lines[k] = line /\ \A m \in 1..(k - 1) : lines[m] # line

\* the line after lines.index(line) exists, is not blank and is all dashes
DashesFollow(lines, line) ==
    LET next_line_idx == IndexOf(lines, line) + 1
    IN  /\ next_line_idx <= Len(lines)
        /\ Strip(lines[next_line_idx]) # <<>>
        /\ AllIn(Strip(lines[next_line_idx]), {"-"})

\* if current_part and current_item:
\*     parsed_data[current_part][current_item] = '\n'.join(current_content).strip()
SaveCurrentItem(st) ==
    IF st.current_part # <<>> /\ st.current_item # <<>>
    THEN DictSet(st.parsed_data, st.current_part,
                 DictSet(DictGet(st.parsed_data, st.current_part), st.current_item,
                         Strip(Join(st.current_content, <<"\n">>))))
    ELSE st.parsed_data

\* if line.strip() and not all(c in '=-' for c in line.strip()):
\*     current_content.append(line)
AppendContent(st, line) ==
    IF Strip(line) # <<>> /\ ~AllIn(Strip(line), {"=", "-"})
    THEN [st EXCEPT !.current_content = Append(@, line)]
    ELSE st

\* the body of the loop over lines, for one line; None is written <<>>
LoadLine(lines, st, line) ==
    IF IsPartLine(line)
    THEN [parsed_data |-> DictSet(SaveCurrentItem(st), Strip(line), <<>>),
          current_part |-> Strip(line),
          current_item |-> <<>>,
          current_content |-> <<>>]
    ELSE IF Strip(line) # <<>> /\ line[1] # "=" /\ line[1] # "-"
    THEN IF DashesFollow(lines, line)
         THEN [parsed_data |-> SaveCurrentItem(st),
               current_part |-> st.current_part,
               current_item |-> Strip(line),
               current_content |-> <<>>]
         ELSE AppendContent(st, line)
    ELSE AppendContent(st, line)

RECURSIVE LoadLoop(_, _, _)
LoadLoop(lines, k, st) ==
    IF k > Len(lines) THEN SaveCurrentItem(st)
    ELSE LoadLoop(lines, k + 1, LoadLine(lines, st, lines[k]))

load_parsed_document(content) ==
    LoadLoop(Split(content, "\n"), 1,
             [parsed_data |-> <<>>, current_part |-> <<>>,
              current_item |-> <<>>, current_content |-> <<>>])

-----------------------------------------------------------------------------
(* Specification SpecRoundTrip: a text is parsed, the hierarchy is saved    *)
(* and the saved file is loaded                                             *)

Save ==
    /\ pc = "Parsed"
    /\ file_text' = save_parsed_to_txt(parsed)
    /\ pc' = "Saved"
    /\ UNCHANGED <<company, all_summaries, chunk_size, chunks, chunk_analyses,
                   calls, in_flight, result, text, parsed, loaded,
                   beside_round_trip>>

Load ==
    /\ pc = "Saved"
    /\ loaded' = load_parsed_document(file_text)
    /\ pc' = "Loaded"
    /\ UNCHANGED <<company, all_summaries, chunk_size, chunks, chunk_analyses,
                   calls, in_flight, result, text, parsed, file_text,
                   beside_round_trip>>

NextRoundTrip == Segment \/ Save \/ Load

SpecRoundTrip == InitSegment /\ [][NextRoundTrip]_vars

-----------------------------------------------------------------------------
(* download_and_clean_filing                                                *)
(*                                                                          *)
(* A response body is a sequence of elements, each a tag and the text it    *)
(* holds; the output file is absent (<<>>) or holds one text (<<text>>).    *)

\* range(3): the number of iterations of the request loop
MaxAttempts == 3

\* the longest response body, in elements
MaxBodyLen == 2

RetryAnyFailure(status_code) == status_code # 200

\* the status after which the loop goes on to the next attempt
Retryable(status_code) == status_code = 403

\* the tags removed from the tree before the text is taken
DroppedTags == {"script", "style", "head", "meta", "table"}

\* soup(...).decompose(): the elements that stay in the tree
RECURSIVE Decompose(_)
Decompose(content) ==
    IF content = <<>> THEN <<>>
    ELSE IF Head(content).tag \in DroppedTags THEN Decompose(Tail(content))
    ELSE <<Head(content)>> \o Decompose(Tail(content))

\* soup.get_text(separator="\n")
GetText(tree) == Join([k \in 1..Len(tree) |-> tree[k].text], <<"\n">>)

\* str.splitlines() for texts whose only line break is "\n"
SplitLines(s) ==
    IF s = <<>> THEN <<>>
    ELSE IF s[Len(s)] = "\n" THEN Split(SubSeq(s, 1, Len(s) - 1), "\n")
    ELSE Split(s, "\n")

\* re.fullmatch(r'\d{1,4}', stripped)
IsPageNumber(stripped) ==
    /\ Len(stripped) \in 1..4
    /\ \A k \in 1..Len(stripped) : stripped[k] \in DigitAtoms

\* re.search(r'table of contents', stripped, re.IGNORECASE)
HasTableOfContents(stripped) ==
    \E k \in 1..Len(stripped) :
        stripped[k] \in {"Table of Contents", "TABLE OF CONTENTS"}

\* the filter of the line loop
KeepLine(stripped) ==
    /\ stripped # <<>>
    /\ ~IsPageNumber(stripped)
    /\ ~HasTableOfContents(stripped)

RECURSIVE CleanLines(_)
CleanLines(raw_lines) ==
    IF raw_lines = <<>> THEN <<>>
    ELSE IF KeepLine(Strip(Head(raw_lines)))
         THEN <<Strip(Head(raw_lines))>> \o CleanLines(Tail(raw_lines))
    ELSE CleanLines(Tail(raw_lines))

\* the text written for a parsed tree
CleanedFiling(tree) == Join(CleanLines(SplitLines(GetText(tree))), <<"\n">>)

StatusCodes == {200, 403, 404, 500}

BodyTags == {"p", "table", "script"}

BodyTexts ==
    {<<"A", " ", "w">>, <<" ", "1", "2", " ">>, <<"1", "2", "1", "2", "1">>,
     <<"w", " ", "Table of Contents">>, <<" ">>}

Bodies == SeqsUpTo([tag : BodyTags, text : BodyTexts], MaxBodyLen)

\* the page a server sends with a status other than 200
ErrorPage == <<[tag |-> "p", text |-> <<"w">>]>>

ServerResponses ==
    [status_code : {200}, content : Bodies]
        \cup [status_code : StatusCodes \ {200}, content : {ErrorPage}]

InitDownload ==
    /\ pc = "Requesting"
    /\ company = ""
    /\ all_summaries = <<>>
    /\ chunk_size = DefaultChunkSize
    /\ text = <<>>
    /\ Idle

\* one iteration of the loop up to the break, the sleep or the raise
Get ==
    /\ pc = "Requesting"
    /\ attempt < MaxAttempts
    /\ \E response \in ServerResponses :
        /\ attempt' = attempt + 1
        /\ r' = response
        /\ gets' = Append(gets, response.status_code)
        /\ IF response.status_code = 200
           THEN pc' = "Downloaded" /\ error' = error
           ELSE IF Retryable(response.status_code)
           THEN pc' = "Sleeping" /\ error' = error
           ELSE /\ pc' = "DownloadFailed"
                /\ error' = <<"Failed with status: ", response.status_code>>
    /\ UNCHANGED <<company, all_summaries, chunk_size, chunks, chunk_analyses,
                   calls, in_flight, result, text, parsed, file_text, loaded,
                   soup, output_file, clean_vars,
                   concurrent_vars>>

\* time.sleep returns; the loop goes on, or is exhausted and its else
\* clause raises
Wake ==
    /\ pc = "Sleeping"
    /\ IF attempt < MaxAttempts
       THEN pc' = "Requesting" /\ error' = error
       ELSE /\ pc' = "DownloadFailed"
            /\ error' = <<"Failed after 3 retries due to 403">>
    /\ UNCHANGED <<company, all_summaries, chunk_size, chunks, chunk_analyses,
                   calls, in_flight, result, text, parsed, file_text, loaded,
                   attempt, r, gets, soup, output_file, clean_vars,
                   concurrent_vars>>

\* the response is parsed, cleaned and written
CleanAndWrite ==
    /\ pc = "Downloaded"
    /\ soup' = <<Decompose(r.content)>>
    /\ output_file' = <<CleanedFiling(Decompose(r.content))>>
    /\ pc' = "Written"
    /\ UNCHANGED <<company, all_summaries, chunk_size, chunks, chunk_analyses,
                   calls, in_flight, result, text, parsed, file_text, loaded,
                   attempt, r, gets, error, clean_vars,
                   concurrent_vars>>

NextDownload == Get \/ Wake \/ CleanAndWrite

SpecDownload == InitDownload /\ [][NextDownload]_vars

-----------------------------------------------------------------------------
(* SECFilingCleaner.is_metadata_line, is_legal_section and clean_text       *)

\* the longest input of clean_text, in lines
MaxCleanLines == 3

\* the entries of self.legal_sections that are atoms of the model
LegalSections == {"SIGNATURES", "Power of Attorney"}

\* a page header is written with one atom for " | 2024 Form 10-K | "
HeaderTail == " | 2024 Form 10-K | "

\* atoms whose text holds a whitespace character
HasBlank(a) == IsSpace(a) \/ a \in {"Power of Attorney", HeaderTail}

\* atoms whose text starts with a letter or a digit
StartsAlnum(a) == ~IsSpace(a) /\ a \notin {"→", "(", ")", "*", "-", HeaderTail}

AllDigits(s) == \A k \in 1..Len(s) : s[k] \in DigitAtoms

\* the patterns of __init__ and the tests of is_metadata_line on a line
is_metadata_line(raw) ==
    LET line == Strip(raw)
        n == Len(line)
        \* ^https?://[^\s]+$
        url == n >= 2 /\ line[1] = "https://"
                      /\ \A k \in 2..n : ~HasBlank(line[k])
        \* ^(...|[a-z]+:[A-Z]|...|false|FY|\d{10})$
        metadata == \/ line = <<"false">>
                    \/ n = 2 /\ line[1] = "aapl:" /\ line[2] \in {"A", "I", "V"}
                    \/ n = 10 /\ AllDigits(line)
        \* ^[a-z]+:[A-Za-z0-9]+.*$
        company_prefix == n >= 2 /\ line[1] = "aapl:" /\ StartsAlnum(line[2])
        member == n >= 1 /\ line[n] = "Member"
        \* ^.+\s\|\s\d{4}\sForm\s10-K\s\|\s\d+$
        header == \E k \in 2..(n - 1) :
                      /\ line[k] = HeaderTail
                      /\ AllDigits(SubSeq(line, k + 1, n))
        \* ^\d{4}-\d{2}-\d{2}$
        date == /\ n = 10
                /\ \A k \in {5, 8} : line[k] = "-"
                /\ \A k \in (1..10) \ {5, 8} : line[k] \in DigitAtoms
        company_id == n = 10 /\ AllDigits(line)
        \* ^.*→.*$
        arrow_line == \E k \in 1..n : line[k] = "→"
        \* ^.{1,3}$
        short_line == StrLen(line) \in 1..3
        \* ^\([0-9]+\)$|^\*+$
        footnote == \/ /\ n >= 3
                       /\ line[1] = "(" /\ line[n] = ")"
                       /\ AllDigits(SubSeq(line, 2, n - 1))
                    \/ n >= 1 /\ \A k \in 1..n : line[k] = "*"
    IN  \/ line = <<>>
        \/ url \/ metadata \/ company_prefix \/ member \/ header \/ date
        \/ company_id \/ arrow_line \/ short_line \/ footnote

\* any(section in line for section in self.legal_sections)
is_legal_section(raw) ==
    \E k \in 1..Len(Strip(raw)) : Strip(raw)[k] \in LegalSections

\* re.sub(r'^\s*\d+→', '', cleaned_line)
StripLineNumber(cleaned_line) ==
    LET q == WsRunEnd(cleaned_line, 1)
        d == DigitRunEnd(cleaned_line, q)
    IN  IF d > q /\ d <= Len(cleaned_line) /\ cleaned_line[d] = "→"
        THEN SubSeq(cleaned_line, d + 1, Len(cleaned_line))
        ELSE cleaned_line

SkipOnlyThisLine(skip, raw) == is_legal_section(raw)

\* the flag after the loop has looked at a line
SkipAfter(skip, raw) == skip \/ is_legal_section(raw)

\* the list after the loop has looked at a line, for the flag as it was
\* before the line
LinesAfter(lines_so_far, skip, raw) ==
    IF is_legal_section(raw) \/ skip \/ is_metadata_line(raw)
        THEN lines_so_far
    ELSE IF Strip(raw) = <<>> THEN lines_so_far
    ELSE IF Strip(StripLineNumber(Strip(raw))) = <<>> THEN lines_so_far
    ELSE Append(lines_so_far, Strip(StripLineNumber(Strip(raw))))

\* re.sub(r'\n{3,}', '\n\n', cleaned_text)
RECURSIVE CollapseNewlines(_)
CollapseNewlines(s) ==
    IF Len(s) >= 3 /\ s[1] = "\n" /\ s[2] = "\n" /\ s[3] = "\n"
    THEN CollapseNewlines(Tail(s))
    ELSE IF s = <<>> THEN <<>>
    ELSE <<s[1]>> \o CollapseNewlines(Tail(s))

\* re.sub(r' {2,}', ' ', cleaned_text)
RECURSIVE CollapseBlanks(_)
CollapseBlanks(s) ==
    IF Len(s) >= 2 /\ s[1] = " " /\ s[2] = " "
    THEN CollapseBlanks(Tail(s))
    ELSE IF s = <<>> THEN <<>>
    ELSE <<s[1]>> \o CollapseBlanks(Tail(s))

\* the text returned for the list the loop has built
TidyText(kept) == Strip(CollapseBlanks(CollapseNewlines(Join(kept, <<"\n">>))))

CleanLineKinds ==
    {<<"Revenue", " ", " ", "w">>, <<" ", "SIGNATURES">>,
     <<"Revenue", " ", "Power of Attorney">>, <<"Signatures", " ">>,
     <<"https://", "w">>, <<>>, <<"w", "w">>, <<"1", "→", "Revenue">>,
     <<"Revenue", " ", "Member">>, <<"Revenue", HeaderTail, "1">>}

CleanInputs == {Join(ls, <<"\n">>) : ls \in SeqsUpTo(CleanLineKinds, MaxCleanLines)}

InitClean ==
    /\ pc = "Cleaning"
    /\ company = ""
    /\ all_summaries = <<>>
    /\ chunk_size = DefaultChunkSize
    /\ text \in CleanInputs
    /\ Idle

\* one iteration of the loop over text.split('\n')
CleanLine ==
    /\ pc = "Cleaning"
    /\ line_index < Len(Split(text, "\n"))
    /\ LET raw == Split(text, "\n")[line_index + 1]
       IN  /\ cleaned_lines' = LinesAfter(cleaned_lines, skip_legal_section, raw)
           /\ skip_legal_section' = SkipAfter(skip_legal_section, raw)
    /\ line_index' = line_index + 1
    /\ UNCHANGED <<pc, company, all_summaries, chunk_size, chunks, chunk_analyses,
                   calls, in_flight, result, text, parsed, file_text, loaded,
                   download_vars, cleaned_text, concurrent_vars>>

\* the loop is over: the lines are joined and tidied
FinishClean ==
    /\ pc = "Cleaning"
    /\ line_index = Len(Split(text, "\n"))
    /\ cleaned_text' = TidyText(cleaned_lines)
    /\ pc' = "Cleaned"
    /\ UNCHANGED <<company, all_summaries, chunk_size, chunks, chunk_analyses,
                   calls, in_flight, result, text, parsed, file_text, loaded,
                   download_vars, line_index, skip_legal_section,
                   cleaned_lines, concurrent_vars>>

NextClean == CleanLine \/ FinishClean

SpecClean == InitClean /\ [][NextClean]_vars

-----------------------------------------------------------------------------
(* Two calls of generate_reasoning on one SECDocumentReasoner, interleaved  *)
(*                                                                          *)
(* reasoner holds the attributes set by __init__, the only state the calls  *)
(* share; runs[id] holds the arguments and the local variables of call id.  *)

RunIds == {1, 2}

\* the attributes after SECDocumentReasoner()
DefaultReasoner ==
    [ollama_url |-> "http://localhost:11434", embedding_model |-> "gemma3:1b"]

\* the documents the calls are made for
RunDocuments == {<<Marker, LongRun, Marker, LongRun>>, <<"a">>}

\* the ticker of each call
RunCompany(id) == IF id = 1 THEN "AAPL" ELSE "MSFT"

RunResponses == {<<"x">>, <<" ", "y", "\n">>}

RunErrors == {"Timeout", "MalformedResponse"}

\* the frame of a call that has not executed its first statement
NewRun(id, document) ==
    [pc |-> "Idle", company |-> RunCompany(id),
     all_summaries |-> document, chunks |-> <<>>,
     chunk_analyses |-> <<>>, calls |-> <<>>, in_flight |-> FALSE,
     result |-> <<>>]

\* variant: the list of analyses is an attribute of the reasoner, one list
\* for all the calls
WithAnalysesOnSelf(rs, id, analyses) ==
    [k \in DOMAIN rs |-> [rs[k] EXCEPT !.chunk_analyses = analyses]]

\* chunk_analyses is a local variable: an assignment changes the frame of
\* the call that makes it
WithAnalyses(rs, id, analyses) == [rs EXCEPT ![id].chunk_analyses = analyses]

\* the record of one requests.post of a call
RunCall(run, kind, chunk_num, prompt) ==
    [kind |-> kind, url |-> reasoner.ollama_url, company |-> run.company,
     chunk_num |-> chunk_num, total_chunks |-> Len(run.chunks),
     prompt |-> prompt, outcome |-> "pending", response |-> <<>>]

RunCompleted(run, outcome, response) ==
    [run.calls EXCEPT ![Len(run.calls)].outcome = outcome,
                      ![Len(run.calls)].response = response]

InitConcurrent ==
    /\ pc = "Interleaved"
    /\ company = ""
    /\ all_summaries = <<>>
    /\ chunk_size = DefaultChunkSize
    /\ text = <<>>
    /\ chunks = <<>>
    /\ chunk_analyses = <<>>
    /\ calls = <<>>
    /\ in_flight = FALSE
    /\ result = <<>>
    /\ parsed = <<>>
    /\ file_text = <<>>
    /\ loaded = <<>>
    /\ attempt = 0
    /\ r = <<>>
    /\ gets = <<>>
    /\ soup = <<>>
    /\ output_file = <<>>
    /\ error = <<>>
    /\ line_index = 0
    /\ skip_legal_section = FALSE
    /\ cleaned_lines = <<>>
    /\ cleaned_text = <<>>
    /\ reasoner = DefaultReasoner
    /\ \E documents \in [RunIds -> RunDocuments] :
           runs = [id \in RunIds |-> NewRun(id, documents[id])]

\* what no step of a call changes
OutsideRuns ==
    UNCHANGED <<pc, company, all_summaries, chunk_size, chunks, chunk_analyses,
                calls, in_flight, result, text, parsed, file_text, loaded,
                download_vars, clean_vars, reasoner>>

\* chunks = self.chunk_summaries(all_summaries); chunk_analyses = []
RunBegin(id) ==
    /\ runs[id].pc = "Idle"
    /\ runs' = WithAnalyses(
           [runs EXCEPT ![id].pc = "Running",
                        ![id].chunks =
                            chunk_summaries(runs[id].all_summaries,
                                            DefaultChunkSize)],
           id, <<>>)
    /\ OutsideRuns

\* the loop body of call id reaches requests.post for its next chunk
RunStartChunkCall(id) ==
    /\ runs[id].pc = "Running"
    /\ ~runs[id].in_flight
    /\ Len(runs[id].chunk_analyses) < Len(runs[id].chunks)
    /\ LET i == Len(runs[id].chunk_analyses) + 1
       IN  runs' = [runs EXCEPT
               ![id].calls = Append(@, RunCall(runs[id], "chunk", i,
                                               runs[id].chunks[i])),
               ![id].in_flight = TRUE]
    /\ OutsideRuns

RunChunkCallReturns(id, response) ==
    /\ runs[id].pc = "Running"
    /\ runs[id].in_flight
    /\ LET run == runs[id]
           i == run.calls[Len(run.calls)].chunk_num
       IN  runs' = WithAnalyses(
               [runs EXCEPT ![id].calls = RunCompleted(run, "ok", response),
                            ![id].in_flight = FALSE],
               id, AfterChunkSuccess(run.chunk_analyses, i, response))
    /\ OutsideRuns

RunChunkCallFails(id, e) ==
    /\ runs[id].pc = "Running"
    /\ runs[id].in_flight
    /\ LET run == runs[id]
           i == run.calls[Len(run.calls)].chunk_num
           failed == [runs EXCEPT ![id].calls = RunCompleted(run, e, <<>>),
                                  ![id].in_flight = FALSE]
       IN  IF Caught(e)
           THEN runs' = WithAnalyses(failed, id,
                                     AfterChunkFailure(run.chunk_analyses, i))
           ELSE runs' = [failed EXCEPT ![id].pc = "Raised"]
    /\ OutsideRuns

RunStartSynthesis(id) ==
    /\ runs[id].pc = "Running"
    /\ ~runs[id].in_flight
    /\ Len(runs[id].chunk_analyses) >= Len(runs[id].chunks)
    /\ NeedsSynthesis(Len(runs[id].chunks))
    /\ runs' = [runs EXCEPT
           ![id].calls = Append(@, RunCall(runs[id], "synthesis", 0,
               Prefix(CombinedAnalysis(runs[id].chunk_analyses),
                      SynthesisPrefixLen))),
           ![id].in_flight = TRUE,
           ![id].pc = "Synthesizing"]
    /\ OutsideRuns

RunSynthesisReturns(id, response) ==
    /\ runs[id].pc = "Synthesizing"
    /\ runs[id].in_flight
    /\ runs' = [runs EXCEPT
           ![id].calls = RunCompleted(runs[id], "ok", response),
           ![id].in_flight = FALSE,
           ![id].result = SynthesisSuccessResult(
               CombinedAnalysis(runs[id].chunk_analyses), response),
           ![id].pc = "Done"]
    /\ OutsideRuns

RunSynthesisFails(id, e) ==
    /\ runs[id].pc = "Synthesizing"
    /\ runs[id].in_flight
    /\ LET failed == [runs EXCEPT ![id].calls = RunCompleted(runs[id], e, <<>>),
                                  ![id].in_flight = FALSE]
       IN  IF Caught(e)
           THEN runs' = [failed EXCEPT
                    ![id].result = SynthesisFailureResult(
                        CombinedAnalysis(runs[id].chunk_analyses)),
                    ![id].pc = "Done"]
           ELSE runs' = [failed EXCEPT ![id].pc = "Raised"]
    /\ OutsideRuns

\* else: return chunk_analyses[0]
RunReturnFirst(id) ==
    /\ runs[id].pc = "Running"
    /\ ~runs[id].in_flight
    /\ Len(runs[id].chunk_analyses) >= Len(runs[id].chunks)
    /\ ~NeedsSynthesis(Len(runs[id].chunks))
    /\ IF runs[id].chunk_analyses # <<>>
       THEN runs' = [runs EXCEPT ![id].result = runs[id].chunk_analyses[1],
                                 ![id].pc = "Done"]
       ELSE runs' = [runs EXCEPT ![id].pc = "Raised"]
    /\ OutsideRuns

NextConcurrent ==
    \E id \in RunIds :
        \/ RunBegin(id)
        \/ RunStartChunkCall(id)
        \/ \E response \in RunResponses : RunChunkCallReturns(id, response)
        \/ \E e \in RunErrors : RunChunkCallFails(id, e)
        \/ RunStartSynthesis(id)
        \/ \E response \in RunResponses : RunSynthesisReturns(id, response)
        \/ \E e \in RunErrors : RunSynthesisFails(id, e)
        \/ RunReturnFirst(id)

SpecConcurrent == InitConcurrent /\ [][NextConcurrent]_vars

-----------------------------------------------------------------------------
(* Properties of generate_reasoning (Spec) *)

\* number of chunks of the run
N == Len(chunks)

IsChunkCall(k) == calls[k].kind = "chunk"

Failed(k) == calls[k].outcome \in GenErrors

Pending(k) == calls[k].outcome \in {"pending", "unanswered"}

AllChunkCallsFailed ==
    /\ Len(calls) >= N
    /\ \A k \in 1..N : IsChunkCall(k) /\ Failed(k)

\* the analysis the caller must see for chunk i, read off the call log
ExpectedAnalysis(i) ==
    IF calls[i].outcome = "ok"
    THEN <<AnalysisHeaderOpen, ToString(i), AnalysisHeaderClose>>
             \o Strip(calls[i].response)
    ELSE <<AnalysisHeaderOpen, ToString(i), AnalysisHeaderClose,
           PlaceholderText, ToString(i)>>

ExpectedCombined == Join([i \in 1..N |-> ExpectedAnalysis(i)], <<"\n", "\n">>)

\* the N placeholder analyses, in index order
AllPlaceholders ==
    Join([i \in 1..N |-> <<AnalysisHeaderOpen, ToString(i), AnalysisHeaderClose,
                           PlaceholderText, ToString(i)>>], <<"\n", "\n">>)

IsPrefixOf(p, s) == Len(p) <= Len(s) /\ SubSeq(s, 1, Len(p)) = p

\* C1: for N >= 1 chunks, when every chunk's generate call fails the run
\* raises no error and returns a result that holds the N placeholder analyses
\* 'Analysis unavailable for chunk i', i = 1..N, in index order.
C1_TotalResilience ==
    (N >= 1 /\ AllChunkCallsFailed) =>
        /\ pc # "Raised"
        /\ pc = "Done" =>
              /\ IsPrefixOf(AllPlaceholders, result)
              /\ (N = 1 => result = AllPlaceholders)

C1_Witness ==
    /\ pc = "Done"
    /\ N = 3
    /\ AllChunkCallsFailed
    /\ calls[1].outcome = "Unreachable"
    /\ calls[2].outcome = "MalformedResponse"
    /\ calls[3].outcome = "Timeout"

\* C2: when the packer yields exactly one chunk, exactly one generate call is
\* made, no synthesis call is issued, and the result is that chunk's analysis
\* with no synthesis section.
C2_SingleChunkShortcut ==
    N = 1 =>
        /\ pc # "Synthesizing"
        /\ Len(calls) <= 1
        /\ \A k \in 1..Len(calls) : IsChunkCall(k)
        /\ pc = "Done" => (Len(calls) = 1 /\ result = ExpectedAnalysis(1))

C2_Witness ==
    /\ pc = "Done"
    /\ N = 1
    /\ calls[1].outcome = "ok"
    /\ calls[1].response = <<" ", "y", "\n">>

\* C3: when N > 1 and the synthesis call fails, the result is the N chunk
\* analyses joined in index order with no synthesis section and no error is
\* raised; when it succeeds, its output is appended after the N analyses as
\* the final synthesis.
C3_SynthesisOutcome ==
    N > 1 =>
        /\ pc # "Raised"
        /\ pc = "Done" =>
              /\ Len(calls) = N + 1
              /\ calls[N + 1].kind = "synthesis"
              /\ IF Failed(N + 1)
                 THEN result = ExpectedCombined
                 ELSE result = ExpectedCombined
                                  \o <<"\n", "\n", SynthesisTitle>>
                                  \o Strip(calls[N + 1].response)

C3_Witness ==
    /\ pc = "Done"
    /\ N = 2
    /\ calls[1].outcome = "ok"
    /\ Failed(2)
    /\ calls[3].kind = "synthesis"
    /\ Failed(3)
    /\ result = ExpectedCombined

\* C4: within one run the calls are strictly ordered: the call for chunk i+1
\* is not started before the call for chunk i has completed (success or
\* placeholder), and the synthesis call is not started before all N chunk
\* analyses are resolved.
C4_CallsStrictlyOrdered ==
    /\ \A k \in 1..Len(calls) : Pending(k) => (k = Len(calls) /\ in_flight)
    /\ \A k \in 1..Len(calls) :
          IF k <= N
          THEN IsChunkCall(k) /\ calls[k].chunk_num = k
          ELSE /\ calls[k].kind = "synthesis"
               /\ k = N + 1
               /\ Len(chunk_analyses) = N
    /\ Len(chunk_analyses) =
           Cardinality({k \in 1..Len(calls) :
                           IsChunkCall(k) /\ (calls[k].outcome = "ok" \/ Failed(k))})

C4_Witness ==
    /\ pc = "Synthesizing"
    /\ in_flight
    /\ N = 3
    /\ Failed(2)
    /\ Pending(4)

\* C5: no retry: every chunk's generate call is issued exactly once whether
\* it succeeds or fails, so a finished run has made exactly N calls when
\* N = 1 and exactly N + 1 calls (N chunk calls, then one synthesis call)
\* when N > 1; a failed call moves the run forward.
C5_NoRetry ==
    /\ \A j, k \in 1..Len(calls) :
          (IsChunkCall(j) /\ IsChunkCall(k) /\ calls[j].chunk_num = calls[k].chunk_num)
              => j = k
    /\ Cardinality({k \in 1..Len(calls) : ~IsChunkCall(k)}) <= 1
    /\ pc = "Done" =>
          /\ Len(calls) = IF N = 1 THEN 1 ELSE N + 1
          /\ \A i \in 1..N : IsChunkCall(i) /\ calls[i].chunk_num = i
          /\ N > 1 => calls[N + 1].kind = "synthesis"

C5_Witness ==
    /\ pc = "Done"
    /\ N = 3
    /\ Failed(1)
    /\ calls[2].outcome = "ok"
    /\ Failed(3)
    /\ Len(calls) = 4

\* the analysis text of one entry of chunk_analyses: what follows the
\* "=== ANALYSIS PART i ===\n" header
AnalysisTextOf(entry) == SubSeq(entry, 4, Len(entry))

\* C11: every chunk analysis text of a run is non-empty whatever the service
\* answers, a successful answer of only whitespace included: it is model
\* output or the failure placeholder.
C11_AnalysisNeverEmpty ==
    \A i \in 1..Len(chunk_analyses) : AnalysisTextOf(chunk_analyses[i]) # <<>>

\* C12 as stated: an empty summaries text gives zero chunks, so no generate
\* call is made, and the run ends without error.
C12_EmptyInputNoChunks ==
    (all_summaries = <<>> /\ pc # "Idle") =>
        /\ chunks = <<>>
        /\ calls = <<>>
        /\ pc # "Raised"

\* C12 (amended): an empty summaries text gives exactly one chunk, the empty
\* text; exactly one generate call is made, for that chunk and with no
\* synthesis call, and the run ends without error, returning analysis part 1
\* (the stripped answer, or the placeholder when the call failed).
C12_EmptyInputOneChunk ==
    (all_summaries = <<>> /\ pc # "Idle") =>
        /\ chunks = << <<>> >>
        /\ pc # "Raised"
        /\ Len(calls) <= 1
        /\ \A k \in 1..Len(calls) :
              IsChunkCall(k) /\ calls[k].chunk_num = 1 /\ calls[k].prompt = <<>>
        /\ pc = "Done" => (Len(calls) = 1 /\ result = ExpectedAnalysis(1))

C12_Witness ==
    /\ all_summaries = <<>>
    /\ pc = "Done"
    /\ Len(calls) = 1
    /\ calls[1].outcome = "ok"
    /\ result = <<AnalysisHeaderOpen, "1", AnalysisHeaderClose, "x">>

\* C13: every call to the generation service is bounded by a timeout: a
\* call the service never answers ends as a GenError, so the run is never
\* left waiting and goes on to Done.  Stated on single states: whenever the
\* posted call is one the service never answers, the step that ends it as
\* a failed call is enabled.
C13_EveryCallBounded ==
    \A k \in 1..Len(calls) :
        calls[k].outcome = "unanswered" =>
            ENABLED (\E e \in GenErrors : ChunkCallFails(e) \/ SynthesisFails(e))

\* C20: failure isolation: a failed generate call for chunk i makes analysis
\* i the placeholder for i and nothing else; every other analysis is the
\* (stripped) text the service returned for its chunk, in index order; and
\* for N > 1 the synthesis call is still posted, over all N analyses with
\* the placeholder among them, its answer ending the result when it succeeds.
C20_FailureIsolation ==
    /\ \A i \in 1..Len(chunk_analyses) : chunk_analyses[i] = ExpectedAnalysis(i)
    /\ \A k \in 1..Len(calls) :
          k > N => /\ calls[k].kind = "synthesis"
                   /\ calls[k].prompt = Prefix(ExpectedCombined, SynthesisPrefixLen)
    /\ (pc = "Done" /\ N > 1) =>
          /\ Len(calls) = N + 1
          /\ IsPrefixOf(ExpectedCombined, result)
          /\ calls[N + 1].outcome = "ok" =>
                 result = ExpectedCombined \o <<"\n", "\n", SynthesisTitle>>
                              \o Strip(calls[N + 1].response)

C20_Witness ==
    /\ pc = "Done"
    /\ N = 3
    /\ Len(calls) = 4
    /\ calls[1].outcome = "ok"
    /\ calls[2].outcome = "Timeout"
    /\ calls[3].outcome = "ok"
    /\ calls[4].outcome = "ok"
    /\ chunk_analyses[1] = AnalysisPart(1, Strip(calls[1].response))
    /\ chunk_analyses[2] = AnalysisPart(2, Placeholder(2))
    /\ chunk_analyses[3] = AnalysisPart(3, Strip(calls[3].response))

\* C21: for N > 1 the synthesis call carries the company identifier and the
\* concatenation of all chunk analyses in index order, each under the marker
\* with its index, cut to its first 7000 characters: the prompt text is a
\* prefix of the concatenation, never longer than 7000 characters, and it
\* stops short of the whole only where the next piece would pass 7000.
C21_SynthesisPromptPrefix ==
    \A k \in 1..Len(calls) :
        calls[k].kind = "synthesis" =>
            /\ N > 1
            /\ calls[k].company = company
            /\ IsPrefixOf(calls[k].prompt, ExpectedCombined)
            /\ StrLen(calls[k].prompt) <= SynthesisPrefixLen
            /\ \/ calls[k].prompt = ExpectedCombined
               \/ StrLen(SubSeq(ExpectedCombined, 1, Len(calls[k].prompt) + 1))
                      > SynthesisPrefixLen

\* C22: the focus label of a chunk depends only on its 1-based index:
\* chunk 1 gets business model and financial health, chunk 2 gets risk
\* assessment and growth opportunities, every chunk with index >= 3 gets
\* investment thesis / synthesis, whatever the total N.
C22_FocusByIndex ==
    \A k \in 1..Len(calls) :
        IsChunkCall(k) =>
            calls[k].focus =
                CASE calls[k].chunk_num = 1 ->
                       "Focus primarily on: Business Model Analysis and Financial Health Assessment"
                  [] calls[k].chunk_num = 2 ->
                       "Focus primarily on: Risk Assessment and Growth Opportunities"
                  [] OTHER ->
                       "Focus on: Investment Thesis and synthesis of previous analysis"

\* runs of one, two and three chunks all post their chunk calls; here the
\* run of three has posted all of them, each with its own label
C22_Witness ==
    /\ N = 3
    /\ Len(calls) >= 3
    /\ calls[1].focus # calls[2].focus
    /\ calls[2].focus # calls[3].focus
    /\ calls[3].focus = "Focus on: Investment Thesis and synthesis of previous analysis"

C27_NeverRaises == pc # "Raised"

\* C28: the cut to 7000 characters applies only to the text sent in the
\* synthesis prompt: the result of a finished run holds every chunk
\* analysis complete and in index order, whether the synthesis call
\* succeeded or not.
C28_ResultNotTruncated ==
    pc = "Done" =>
        /\ Len(chunk_analyses) = N
        /\ \A i \in 1..N : chunk_analyses[i] = ExpectedAnalysis(i)
        /\ IsPrefixOf(ExpectedCombined, result)
        /\ Failed(Len(calls)) => result = ExpectedCombined

\* a finished run whose analyses together pass 7000 characters, the
\* synthesis call having succeeded
C28_Witness ==
    /\ pc = "Done"
    /\ N = 3
    /\ StrLen(ExpectedCombined) > SynthesisPrefixLen
    /\ calls[4].outcome = "ok"
    /\ calls[4].prompt # ExpectedCombined
    /\ StrLen(result) > StrLen(ExpectedCombined)

\* a synthesis call whose concatenation of three analyses is longer than
\* 7000 characters
C21_Witness ==
    /\ N = 3
    /\ Len(calls) = 4
    /\ calls[4].kind = "synthesis"
    /\ StrLen(ExpectedCombined) > SynthesisPrefixLen
    /\ calls[4].prompt # ExpectedCombined
    /\ calls[4].prompt # <<>>

-----------------------------------------------------------------------------
(* Properties of parse_10k_parts_and_items (SpecSegment) *)

\* the canonical part labels, in canonical order
CanonicalLabels ==
    << <<"PART", " ", "I">>, <<"PART", " ", "I", "I">>,
       <<"PART", " ", "I", "I", "I">>, <<"PART", " ", "I", "V">> >>

IsCanonical(label) == \E k \in 1..4 : CanonicalLabels[k] = label

CanonicalIndex(label) == CHOOSE k \in 1..4 : CanonicalLabels[k] = label

\* the slice of the i-th of the Part headers hs of the text: from its start
\* to the start of the next Part header, or to the end of the text
HeaderSlice(hs, i) ==
    SubSeq(text, hs[i].start,
           IF i < Len(hs) THEN hs[i + 1].start - 1 ELSE Len(text))

HasItemHeader(hs, i) == ItemsFinditer(HeaderSlice(hs, i), 1) # <<>>

\* the normalised titles of the Item headers of a slice, in document order,
\* each title at its first occurrence
RECURSIVE FirstOccurrences(_, _)
FirstOccurrences(titles, seen) ==
    IF titles = <<>> THEN <<>>
    ELSE IF Head(titles) \in seen THEN FirstOccurrences(Tail(titles), seen)
    ELSE <<Head(titles)>> \o FirstOccurrences(Tail(titles), seen \cup {Head(titles)})

TitlesInDocumentOrder(slice) ==
    LET ms == ItemsFinditer(slice, 1)
    IN  FirstOccurrences([j \in 1..Len(ms) |-> NormalizeTitle(ms[j].group)], {})

ItemTitles(items) == [j \in 1..Len(items) |-> items[j].key]

AllHeadersCanonicalWithItems(hs) ==
    /\ hs # <<>>
    /\ \A i \in 1..Len(hs) : IsCanonical(hs[i].title) /\ HasItemHeader(hs, i)

\* C8: for a text whose Part headers all carry canonical labels and each
\* contain at least one Item header, the hierarchy holds exactly those parts,
\* in the order PART I, PART II, PART III, PART IV whatever their order in the
\* text, and the items of each part are in document order.
C8_PartsInCanonicalOrder ==
    pc = "Parsed" =>
        LET hs == RawParts(text)
        IN  AllHeadersCanonicalWithItems(hs) =>
            /\ {parsed[k].key : k \in 1..Len(parsed)}
                   = {hs[i].title : i \in 1..Len(hs)}
            /\ \A k \in 1..Len(parsed) : IsCanonical(parsed[k].key)
            /\ \A j, k \in 1..Len(parsed) :
                  j < k => CanonicalIndex(parsed[j].key)
                               < CanonicalIndex(parsed[k].key)
            /\ \A k \in 1..Len(parsed) :
                  \E i \in 1..Len(hs) :
                      /\ hs[i].title = parsed[k].key
                      /\ ItemTitles(parsed[k].value)
                             = TitlesInDocumentOrder(HeaderSlice(hs, i))

C8_Witness ==
    /\ pc = "Parsed"
    /\ Len(parsed) = 2
    /\ parsed[1].key = CanonicalLabels[1]
    /\ parsed[2].key = CanonicalLabels[2]
    /\ LET hs == RawParts(text)
       IN  /\ AllHeadersCanonicalWithItems(hs)
           /\ Len(hs) = 2
           /\ hs[1].title = CanonicalLabels[2]
           /\ hs[2].title = CanonicalLabels[1]

\* C9: every part present in the hierarchy has at least one item; a part
\* slice with a Part header but no Item header match never appears in the
\* output, not even with an empty item map.
C9_NoPartWithoutItems ==
    pc = "Parsed" =>
        LET hs == RawParts(text)
        IN  \A k \in 1..Len(parsed) :
                /\ parsed[k].value # <<>>
                /\ \E i \in 1..Len(hs) :
                      hs[i].title = parsed[k].key /\ HasItemHeader(hs, i)

C9_Witness ==
    /\ pc = "Parsed"
    /\ Len(parsed) = 1
    /\ parsed[1].key = CanonicalLabels[2]
    /\ LET hs == RawParts(text)
       IN  /\ Len(hs) = 2
           /\ hs[1].title = CanonicalLabels[1]
           /\ ~HasItemHeader(hs, 1)
           /\ hs[2].title = CanonicalLabels[2]
           /\ HasItemHeader(hs, 2)

\* C10: parse_10k_parts_and_items raises for no input text, and a text with
\* no recognisable Part header, or whose Part headers all carry non-canonical
\* labels (such as 'PART V' followed by an Item header), yields the empty
\* hierarchy.
C10_NeverRaisesEmptyWithoutCanonical ==
    /\ pc # "Raised"
    /\ pc = "Parsed" =>
          LET hs == RawParts(text)
          IN  (\A i \in 1..Len(hs) : ~IsCanonical(hs[i].title)) => parsed = <<>>

C10_Witness ==
    /\ pc = "Parsed"
    /\ parsed = <<>>
    /\ LET hs == RawParts(text)
       IN  /\ Len(hs) = 1
           /\ hs[1].title = <<"PART", " ", "V">>
           /\ HasItemHeader(hs, 1)

\* the items the item loop yields for one slice
ItemsOfSlice(slice) == PartItems(slice, ItemsFinditer(slice, 1), 1, <<>>)

HasLabel(hs, label) == \E i \in 1..Len(hs) : hs[i].title = label

FirstOccurrence(hs, label) ==
    CHOOSE i \in 1..Len(hs) :
        hs[i].title = label /\ \A m \in 1..(i - 1) : hs[m].title # label

LastOccurrence(hs, label) ==
    CHOOSE i \in 1..Len(hs) :
        hs[i].title = label /\ \A m \in (i + 1)..Len(hs) : hs[m].title # label

\* C15 as stated: when a canonical Part header occurs more than once, the
\* part starts at its first occurrence: the items emitted for the part are
\* those of the slice that begins at the first occurrence.
C15_FirstOccurrenceWins ==
    pc = "Parsed" =>
        LET hs == RawParts(text)
        IN  /\ \A k \in 1..Len(parsed) :
                  /\ HasLabel(hs, parsed[k].key)
                  /\ parsed[k].value =
                         ItemsOfSlice(HeaderSlice(hs, FirstOccurrence(hs, parsed[k].key)))
            /\ \A i \in 1..Len(hs) :
                  (/\ IsCanonical(hs[i].title)
                   /\ HasItemHeader(hs, FirstOccurrence(hs, hs[i].title)))
                  => DictHas(parsed, hs[i].title)

\* C15 (amended): when a canonical Part header occurs more than once, the
\* part starts at its last occurrence: the items emitted for the part are
\* those of the slice that begins at the last occurrence, and the part is
\* emitted exactly when that slice has an Item header.
C15_LastOccurrenceWins ==
    pc = "Parsed" =>
        LET hs == RawParts(text)
        IN  /\ \A k \in 1..Len(parsed) :
                  /\ HasLabel(hs, parsed[k].key)
                  /\ parsed[k].value =
                         ItemsOfSlice(HeaderSlice(hs, LastOccurrence(hs, parsed[k].key)))
            /\ \A i \in 1..Len(hs) :
                  (/\ IsCanonical(hs[i].title)
                   /\ HasItemHeader(hs, LastOccurrence(hs, hs[i].title)))
                  <=> DictHas(parsed, hs[i].title)

\* a part whose header occurs twice, with an Item header after the first
\* occurrence only: the part is not emitted
C15_Witness ==
    /\ pc = "Parsed"
    /\ parsed = <<>>
    /\ LET hs == RawParts(text)
       IN  /\ Len(hs) = 2
           /\ hs[1].title = CanonicalLabels[1]
           /\ hs[2].title = CanonicalLabels[1]
           /\ HasItemHeader(hs, 1)
           /\ ~HasItemHeader(hs, 2)

\* content is, up to surrounding whitespace, a stretch of the text that lies
\* between the positions lo and hi (both included)
TakenFromWithin(content, lo, hi) ==
    \E a \in lo..(hi + 1) : \E b \in (a - 1)..hi :
        content = Strip(SubSeq(text, a, b))

\* the last position of the text before the Part header that follows the
\* i-th one, whatever its label
LastBeforeNextHeader(hs, i) ==
    IF i < Len(hs) THEN hs[i + 1].start - 1 ELSE Len(text)

\* C16: a Part header with a non-canonical label still ends the slice of the
\* part before it, and its own text is dropped: every item content of every
\* emitted part is taken from the text between the part's own header and
\* the next Part header of any label, canonical or not.
C16_ContentStopsAtNextHeader ==
    pc = "Parsed" =>
        LET hs == RawParts(text)
        IN  \A k \in 1..Len(parsed) :
                /\ IsCanonical(parsed[k].key)
                /\ HasLabel(hs, parsed[k].key)
                /\ LET i == LastOccurrence(hs, parsed[k].key)
                   IN  \A j \in 1..Len(parsed[k].value) :
                           TakenFromWithin(parsed[k].value[j].value,
                                           hs[i].start, LastBeforeNextHeader(hs, i))

\* an emitted part followed by a 'PART V' header that has text of its own
C16_Witness ==
    /\ pc = "Parsed"
    /\ Len(parsed) = 1
    /\ LET hs == RawParts(text)
       IN  /\ Len(hs) = 2
           /\ hs[1].title = CanonicalLabels[1]
           /\ hs[2].title = <<"PART", " ", "V">>
           /\ \E p \in hs[2].start..Len(text) : text[p] = "w"
           /\ \A j \in 1..Len(parsed[1].value) : parsed[1].value[j].value = <<>>

\* the position of the text just after the first Item header of the slice
\* of the i-th Part header
AfterFirstItemHeader(hs, i) ==
    hs[i].start + ItemsFinditer(HeaderSlice(hs, i), 1)[1].end - 1

\* C17: inside a part, the text between the Part header and the first Item
\* header is discarded: every item content of every emitted part is taken
\* from the text that follows the first Item header of the part's slice.
C17_PreambleDiscarded ==
    pc = "Parsed" =>
        LET hs == RawParts(text)
        IN  \A k \in 1..Len(parsed) :
                /\ HasLabel(hs, parsed[k].key)
                /\ LET i == LastOccurrence(hs, parsed[k].key)
                   IN  /\ HasItemHeader(hs, i)
                       /\ \A j \in 1..Len(parsed[k].value) :
                             TakenFromWithin(parsed[k].value[j].value,
                                             AfterFirstItemHeader(hs, i),
                                             LastBeforeNextHeader(hs, i))

\* an emitted part with the line 'w' between its header and its first Item
\* header, and 'w' the content of no item
C17_Witness ==
    /\ pc = "Parsed"
    /\ Len(parsed) = 1
    /\ LET hs == RawParts(text)
       IN  /\ Len(hs) = 1
           /\ \E p \in (hs[1].start + 1)..(AfterFirstItemHeader(hs, 1) - 2) :
                 /\ text[p] = "w"
                 /\ text[p - 1] = "\n"
                 /\ text[p + 1] = "\n"
    /\ \A j \in 1..Len(parsed[1].value) : parsed[1].value[j].value = <<>>

Contains(s, atom) == \E p \in 1..Len(s) : s[p] = atom

\* C18: Item headers are recognised per physical line: 'Item', the number,
\* the optional letter, the '.' and the trailing text all lie on one line,
\* so every item title is taken from a single line of the part slice and
\* contains no newline.
C18_TitleOnOneLine ==
    pc = "Parsed" =>
        \A k \in 1..Len(parsed) : \A j \in 1..Len(parsed[k].value) :
            ~Contains(parsed[k].value[j].key, "\n")

\* s holds the atom twice in a row
HasPair(s, atom) == \E p \in 1..(Len(s) - 1) : s[p] = atom /\ s[p + 1] = atom

\* C19: every item title of the hierarchy is normalised: no leading or
\* trailing whitespace, no run of two or more spaces, and no literal '..',
\* for every header line, those with three or more consecutive dots included.
C19_TitlesNormalised ==
    pc = "Parsed" =>
        \A k \in 1..Len(parsed) : \A j \in 1..Len(parsed[k].value) :
            LET title == parsed[k].value[j].key
            IN  /\ Strip(title) = title
                /\ ~HasPair(title, " ")
                /\ ~HasPair(title, ".")

\* the trimmed text between the j-th Item header of a slice and the next
\* Item header, or the end of the slice
ContentAfterHeader(slice, ms, j) ==
    Strip(SubSeq(slice, ms[j].end,
                 IF j < Len(ms) THEN ms[j + 1].from - 1 ELSE Len(slice)))

\* C26 as stated: for every emitted part the number of items equals the
\* number of Item header matches in the part's slice, and the content of
\* the j-th item is the trimmed text between the j-th header and the next
\* one (or the end of the slice); headers whose normalised titles are equal
\* do not overwrite one another.
C26_OneItemPerHeader ==
    pc = "Parsed" =>
        LET hs == RawParts(text)
        IN  \A k \in 1..Len(parsed) :
                LET slice == HeaderSlice(hs, LastOccurrence(hs, parsed[k].key))
                    ms == ItemsFinditer(slice, 1)
                IN  /\ Len(parsed[k].value) = Len(ms)
                    /\ \A j \in 1..Len(ms) :
                          parsed[k].value[j].value = ContentAfterHeader(slice, ms, j)

\* C26 (amended): for every emitted part the items are keyed by normalised
\* title: there is one item per distinct normalised title among the Item
\* header matches of the part's slice, placed where the title first occurs,
\* and its content is the trimmed text between the last header with that
\* title and the next header (or the end of the slice); a later header with
\* an equal normalised title overwrites the content of the earlier one.
C26_OneItemPerTitle ==
    pc = "Parsed" =>
        LET hs == RawParts(text)
        IN  \A k \in 1..Len(parsed) :
                LET slice == HeaderSlice(hs, LastOccurrence(hs, parsed[k].key))
                    ms == ItemsFinditer(slice, 1)
                    title(j) == NormalizeTitle(ms[j].group)
                    last(t) == CHOOSE j \in 1..Len(ms) :
                                  /\ title(j) = t
                                  /\ \A m \in (j + 1)..Len(ms) : title(m) # t
                IN  /\ ItemTitles(parsed[k].value) = TitlesInDocumentOrder(slice)
                    /\ \A i \in 1..Len(parsed[k].value) :
                          parsed[k].value[i].value =
                              ContentAfterHeader(slice, ms, last(parsed[k].value[i].key))

\* a part with two Item headers of the same title, the first followed by
\* the line 'w' and the second by nothing: one item, with empty content
C26_Witness ==
    /\ pc = "Parsed"
    /\ Len(parsed) = 1
    /\ Len(parsed[1].value) = 1
    /\ parsed[1].value[1].value = <<>>
    /\ LET hs == RawParts(text)
           ms == ItemsFinditer(HeaderSlice(hs, 1), 1)
       IN  /\ Len(hs) = 1
           /\ Len(ms) = 2
           /\ ContentAfterHeader(HeaderSlice(hs, 1), ms, 1) = <<"w">>

-----------------------------------------------------------------------------
(* Properties of the saved text format (SpecRoundTrip) *)

\* C29: round trip of the text hierarchy format: for every hierarchy that
\* parse_10k_parts_and_items produces, load_parsed_document applied to the
\* file written by save_parsed_to_txt returns the same parts, the same item
\* titles in the same order and the same item contents.
C29_RoundTrip == pc = "Loaded" => loaded = parsed

-----------------------------------------------------------------------------
(* Properties of chunk_summaries (SpecPack) *)

\* the blocks of the input: the text before the first marker, then each
\* marker together with the section that follows it
InputBlocks(summaries) ==
    LET sections == Split(summaries, Marker)
    IN  [k \in 1..Len(sections) |-> SectionTextByIndex(sections, k)]

\* remove every blank atom
RECURSIVE NonBlank(_)
NonBlank(s) ==
    IF s = <<>> THEN <<>>
    ELSE IF IsSpace(Head(s)) THEN NonBlank(Tail(s))
    ELSE <<Head(s)>> \o NonBlank(Tail(s))

\* Lemma (size part of C6): a chunk is within the limit, or it is one
\* serialized section, as the loop built it, that alone exceeds the limit.
ChunkWithinLimitOrSingle ==
    pc = "Packed" =>
        \A k \in 1..Len(chunks) :
            \/ StrLen(chunks[k]) <= chunk_size
            \/ \E j \in 1..Len(InputBlocks(all_summaries)) :
                  /\ StrLen(InputBlocks(all_summaries)[j]) > chunk_size
                  /\ chunks[k] = Strip(InputBlocks(all_summaries)[j])

\* C6: every chunk has length <= limit unless it is a single block that alone
\* exceeds the limit, and every such block is emitted alone, not truncated and
\* not split.  Read in the way most favourable to the code: surrounding
\* whitespace, which the packer trims from every chunk, is not counted as
\* truncation, and whitespace-only blocks are left out.
C6_OversizedBlockEmittedWhole ==
    pc = "Packed" =>
        /\ \A k \in 1..Len(chunks) :
              \/ StrLen(chunks[k]) <= chunk_size
              \/ \E j \in 1..Len(InputBlocks(all_summaries)) :
                    /\ StrLen(InputBlocks(all_summaries)[j]) > chunk_size
                    /\ chunks[k] = Strip(InputBlocks(all_summaries)[j])
        /\ \A j \in 1..Len(InputBlocks(all_summaries)) :
              (/\ StrLen(InputBlocks(all_summaries)[j]) > chunk_size
               /\ Strip(Split(all_summaries, Marker)[j]) # <<>>)
              => \E k \in 1..Len(chunks) :
                    chunks[k] = Strip(InputBlocks(all_summaries)[j])

\* the input blocks that are not whitespace only, concatenated in order
RECURSIVE NonBlankBlocks(_, _)
NonBlankBlocks(summaries, j) ==
    IF j > Len(InputBlocks(summaries)) THEN <<>>
    ELSE (IF Strip(Split(summaries, Marker)[j]) # <<>>
          THEN InputBlocks(summaries)[j] ELSE <<>>)
         \o NonBlankBlocks(summaries, j + 1)

\* C7: packing is lossless: the chunks, concatenated in order, reproduce the
\* concatenation of the input blocks; no block text is dropped, duplicated,
\* reordered or altered.  Read in the way most favourable to the code:
\* compared up to whitespace, which the packer trims, and with or without
\* the blocks that are whitespace only.
C7_PackingLossless ==
    pc = "Packed" =>
        \/ NonBlank(Concat(chunks)) = NonBlank(all_summaries)
        \/ NonBlank(Concat(chunks)) = NonBlank(NonBlankBlocks(all_summaries, 1))

\* the input blocks that are not whitespace only, as a list, from block j on
RECURSIVE PackedBlocks(_, _)
PackedBlocks(summaries, j) ==
    IF j > Len(InputBlocks(summaries)) THEN <<>>
    ELSE (IF Strip(Split(summaries, Marker)[j]) # <<>>
          THEN <<InputBlocks(summaries)[j]>> ELSE <<>>)
         \o PackedBlocks(summaries, j + 1)

\* greedy packing of blocks in input order, as the claim words it: a block
\* joins the pending chunk exactly when pending size + block size <= limit,
\* else the pending chunk is emitted and a new one starts with that block;
\* the last pending chunk is emitted at the end of the input
RECURSIVE GreedyPack(_, _, _, _, _)
GreedyPack(blocks, j, out, pending, limit) ==
    IF j > Len(blocks)
    THEN (IF pending # <<>> THEN Append(out, pending) ELSE out)
    ELSE IF StrLen(pending) + StrLen(blocks[j]) <= limit
    THEN GreedyPack(blocks, j + 1, out, pending \o blocks[j], limit)
    ELSE GreedyPack(blocks, j + 1,
                    IF pending # <<>> THEN Append(out, pending) ELSE out,
                    blocks[j], limit)

\* C14: chunk_summaries packs greedily in input order: a text within the
\* limit comes back as one chunk holding everything; otherwise the chunks
\* are those of the greedy packing of the input blocks (so that a chunk
\* and the first block of the next one together exceed the limit).  Read in
\* the way most favourable to the code: whitespace-only blocks are left
\* out and each chunk is compared after trimming.
C14_GreedyPacking ==
    pc = "Packed" =>
        IF StrLen(all_summaries) <= chunk_size
        THEN chunks = <<all_summaries>>
        ELSE LET greedy == GreedyPack(PackedBlocks(all_summaries, 1), 1,
                                      <<>>, <<>>, chunk_size)
             IN  chunks = [k \in 1..Len(greedy) |-> Strip(greedy[k])]

-----------------------------------------------------------------------------
(* Properties of download_and_clean_filing (SpecDownload) *)

\* C30: download_and_clean_filing makes at most three GET attempts: every
\* attempt but the last was answered 403 (it stops at the first 200 and
\* raises at once on any other status), and after three 403 answers in a
\* row it raises with no response parsed and no output file written.
C30_AtMostThreeAttempts ==
    /\ Len(gets) <= 3
    /\ attempt = Len(gets)
    /\ \A k \in 1..(Len(gets) - 1) : gets[k] = 403
    /\ pc = "Requesting" => \A k \in 1..Len(gets) : gets[k] = 403
    /\ (gets # <<>> /\ gets[Len(gets)] = 200) => pc \in {"Downloaded", "Written"}
    /\ (gets # <<>> /\ gets[Len(gets)] \notin {200, 403}) =>
           /\ pc = "DownloadFailed"
           /\ error = <<"Failed with status: ", gets[Len(gets)]>>
    /\ gets = <<403, 403, 403>> =>
           /\ pc \in {"Sleeping", "DownloadFailed"}
           /\ pc = "DownloadFailed" =>
                  error = <<"Failed after 3 retries due to 403">>
    /\ pc \in {"Requesting", "Sleeping", "DownloadFailed"} =>
           soup = <<>> /\ output_file = <<>>

\* three 403 answers in a row ended the download with the exception
C30_Witness ==
    /\ pc = "DownloadFailed"
    /\ gets = <<403, 403, 403>>
    /\ output_file = <<>>

-----------------------------------------------------------------------------
(* Properties of clean_text (SpecClean) *)

\* the index of the first line with a legal-section marker, or one more
\* than the number of lines
FirstLegal(ls) ==
    Min({k \in 1..Len(ls) : is_legal_section(ls[k])} \cup {Len(ls) + 1})

\* the lines the metadata rules alone keep, stripped
RECURSIVE KeptByMetadataRules(_)
KeptByMetadataRules(ls) ==
    IF ls = <<>> THEN <<>>
    ELSE IF is_metadata_line(Head(ls)) THEN KeptByMetadataRules(Tail(ls))
    ELSE <<Strip(Head(ls))>> \o KeptByMetadataRules(Tail(ls))

\* C25: the legal-section flag of clean_text never resets: it is set
\* exactly when a line with a marker has been handled, the list holds the
\* lines before the first marker that the metadata rules keep and nothing
\* of the marker line or of any later line, and the returned text is made
\* of those lines only.
C25_SkipFlagNeverResets ==
    LET ls == Split(text, "\n")
        m == FirstLegal(ls)
    IN  /\ skip_legal_section = (m <= line_index)
        /\ cleaned_lines =
               KeptByMetadataRules(SubSeq(ls, 1, Min({line_index, m - 1})))
        /\ pc = "Cleaned" =>
               cleaned_text = TidyText(KeptByMetadataRules(SubSeq(ls, 1, m - 1)))

\* a kept line, then a marker line, then a line the metadata rules would
\* keep: the text returned holds the first line only
C25_Witness ==
    LET ls == Split(text, "\n")
    IN  /\ pc = "Cleaned"
        /\ Len(ls) = 3
        /\ FirstLegal(ls) = 2
        /\ ~is_metadata_line(ls[1])
        /\ ~is_metadata_line(ls[3]) /\ ~is_legal_section(ls[3])
        /\ cleaned_text = CollapseBlanks(Strip(ls[1]))

-----------------------------------------------------------------------------
(* Properties of interleaved runs (SpecConcurrent) *)

\* the analyses a call running alone holds after its first n requests have
\* been answered as its log says
RECURSIVE AnalysesAlone(_, _)
AnalysesAlone(log, n) ==
    IF n = 0 THEN <<>>
    ELSE IF log[n].outcome = "ok"
         THEN AfterChunkSuccess(AnalysesAlone(log, n - 1), n, log[n].response)
    ELSE AfterChunkFailure(AnalysesAlone(log, n - 1), n)

\* the value a call running alone returns for its arguments and the answers
\* of its log
ResultAlone(run) ==
    LET alone_chunks == chunk_summaries(run.all_summaries, DefaultChunkSize)
        n == Len(alone_chunks)
        combined == CombinedAnalysis(AnalysesAlone(run.calls, n))
    IN  IF NeedsSynthesis(n)
        THEN IF run.calls[n + 1].outcome = "ok"
             THEN SynthesisSuccessResult(combined, run.calls[n + 1].response)
             ELSE SynthesisFailureResult(combined)
        ELSE AnalysesAlone(run.calls, n)[1]

\* the answered chunk requests of a log
AnsweredChunks(log) ==
    Cardinality({k \in 1..Len(log) :
                    log[k].kind = "chunk" /\ log[k].outcome # "pending"})

\* C24: two interleaved runs of generate_reasoning on one reasoner share no
\* mutable state: the reasoner's attributes never change, the analyses a
\* run holds and the requests it posts are those it would hold and post
\* alone for the answers it received, and the result of a finished run is
\* the result it would produce alone.
C24_RunsIndependent ==
    /\ reasoner = DefaultReasoner
    /\ \A id \in RunIds :
        LET run == runs[id]
            alone_chunks == chunk_summaries(run.all_summaries, DefaultChunkSize)
        IN  /\ run.pc # "Idle" => run.chunks = alone_chunks
            /\ run.pc \in {"Running", "Synthesizing", "Done"} =>
                   run.chunk_analyses =
                       AnalysesAlone(run.calls, AnsweredChunks(run.calls))
            /\ \A k \in 1..Len(run.calls) :
                   /\ run.calls[k].company = run.company
                   /\ run.calls[k].kind = "chunk" =>
                          /\ run.calls[k].chunk_num = k
                          /\ run.calls[k].prompt = alone_chunks[k]
                   /\ run.calls[k].kind = "synthesis" =>
                          /\ k = Len(alone_chunks) + 1
                          /\ run.calls[k].prompt =
                                 Prefix(CombinedAnalysis(
                                            AnalysesAlone(run.calls, k - 1)),
                                        SynthesisPrefixLen)
            /\ run.pc = "Done" => run.result = ResultAlone(run)

\* both runs have finished, for different documents and with different
\* answers, after the second run began while a request of the first was
\* in flight
C24_Witness ==
    /\ runs[1].pc = "Done" /\ runs[2].pc = "Done"
    /\ runs[1].all_summaries # runs[2].all_summaries
    /\ runs[1].company # runs[2].company
    /\ runs[1].result # runs[2].result
    /\ Len(runs[1].calls) = 3
    /\ runs[1].calls[2].outcome = "Timeout"
    /\ runs[2].calls[1].outcome = "ok"

====
